---- MODULE Spec2Model ----
(***************************************************************************)
(* Instruction assembly of the whirlpools rust-sdk: order_mints, the       *)
(* token-account provisioner, create-pool, decrease-liquidity and pool     *)
(* discovery, each entry point as one action over the ledger it reads and  *)
(* the process-wide defaults it locks; create-pool and pool discovery also *)
(* statement by statement, with other threads running in between.          *)
(***************************************************************************)
EXTENDS Integers, Sequences, FiniteSets, TLC

VARIABLES
    ledger,     \* the accounts the rpc client can read
    defaults,   \* the process-wide defaults (FUNDER, config addresses, ...)
    held,       \* the defaults whose mutex another thread holds right now
    call        \* the last entry-point call: its arguments and what it returned

vars == <<ledger, defaults, held, call>>

(***************************************************************************)
(* Bounds of the model.                                                    *)
(***************************************************************************)
MaxSpecLen == 2      \* longest Vec<TokenAccountStrategy> of a request
MaxBalance == 2      \* largest balance a WithBalance strategy asks for
MaxAmount == 1       \* largest amount a token account holds
MaxTime == 1         \* timestamps (ms) the Seed strategy can read
MaxTickIndex == 7    \* the tick range is -MaxTickIndex..MaxTickIndex
TickArraySize == 2   \* ticks of one tick array
MaxTickSpacing == 2  \* tick spacings are 1..MaxTickSpacing
DefaultSlippage == 1 \* the default slippage tolerance, in bps
MaxFeeRate == 3      \* the protocol fee rate of the config account

(***************************************************************************)
(* Addresses.  A Pubkey is its byte array, cut to two bytes; a derived     *)
(* address is the tuple of the seeds it is derived from.                   *)
(***************************************************************************)
PubkeyDefault == <<0, 0>>
NATIVE_MINT == <<6, 1>>
TOKEN_PROGRAM_ID == <<6, 221>>
TOKEN_2022_PROGRAM_ID == <<6, 222>>
MintX == <<1, 2>>
MintY == <<1, 3>>
MintZ == <<9, 0>>
Wallet == <<7, 7>>
PositionMint == <<5, 5>>
ConfigKey1 == <<2, 1>>
ConfigKey2 == <<2, 2>>
ExtensionKey1 == <<3, 1>>
ExtensionKey2 == <<3, 2>>

Programs == {TOKEN_PROGRAM_ID, TOKEN_2022_PROGRAM_ID}

Derived(tag, k1, k2, k3, n) == <<tag, k1, k2, k3, n>>

\* get_associated_token_address_with_program_id(wallet, mint, token program)
get_associated_token_address_with_program_id(wallet, mint, program) ==
    Derived("ata", wallet, mint, program, 0)

\* Keypair::new(): a key no account of the ledger has; n tells the keypairs
\* of one call apart
Keypair_new(n) == Derived("keypair", PubkeyDefault, PubkeyDefault, PubkeyDefault, n)
NewKeypair == Keypair_new(0)

\* the program-derived addresses of the client crate
get_whirlpool_address(config, mint_a, mint_b, tick_spacing) ==
    Derived("whirlpool", config, mint_a, mint_b, tick_spacing)
get_fee_tier_address(config, tick_spacing) ==
    Derived("fee_tier", config, PubkeyDefault, PubkeyDefault, tick_spacing)
get_token_badge_address(config, mint) ==
    Derived("token_badge", config, mint, PubkeyDefault, 0)
get_tick_array_address(pool, start_tick_index) ==
    Derived("tick_array", pool, PubkeyDefault, PubkeyDefault, start_tick_index)
get_position_address(position_mint) ==
    Derived("position", position_mint, PubkeyDefault, PubkeyDefault, 0)

\* Pubkey::new(hash(owner ++ timestamp ++ token program))
SeedPubkey(owner, now) == Derived("seed", owner, TOKEN_PROGRAM_ID, PubkeyDefault, now)

(***************************************************************************)
(* Byte-wise order of two keys: Pubkey's derived Ord on its byte array.    *)
(***************************************************************************)
RECURSIVE BytesLtFrom(_, _, _)
BytesLtFrom(a, b, i) ==
    IF i > Len(a) THEN FALSE
    ELSE IF a[i] # b[i] THEN a[i] < b[i]
    ELSE BytesLtFrom(a, b, i + 1)

BytesLt(a, b) == BytesLtFrom(a, b, 1)

order_mints_first_always(mint1, mint2) == <<mint1, mint2>>

order_mints(mint1, mint2) ==
    IF BytesLt(mint1, mint2) THEN <<mint1, mint2>> ELSE <<mint2, mint1>>

(***************************************************************************)
(* Accounts of the ledger.                                                 *)
(***************************************************************************)
Absent == [st |-> "absent", owner |-> PubkeyDefault, amount |-> 0]
MintOk(program) == [st |-> "ok", owner |-> program, amount |-> 0]
MintBad(program) == [st |-> "bad", owner |-> program, amount |-> 0]
TokenOk(n) == [st |-> "ok", owner |-> TOKEN_PROGRAM_ID, amount |-> n]
TokenBad == [st |-> "bad", owner |-> TOKEN_PROGRAM_ID, amount |-> 0]

IsSome(info) == info.st # "absent"

\* rpc.get_account(address) on the mints and on the token accounts
GetMint(m) == IF m \in DOMAIN ledger.mint THEN ledger.mint[m] ELSE Absent
GetToken(a) == IF a \in DOMAIN ledger.token THEN ledger.token[a] ELSE Absent

(***************************************************************************)
(* Results of an entry point.                                              *)
(***************************************************************************)
Err(msg, reads) ==
    [status |-> "err", error |-> msg, reads |-> reads,
     create |-> <<>>, cleanup |-> <<>>, addresses |-> <<>>, signers |-> <<>>,
     instructions |-> <<>>]

Panic(msg, reads) ==
    [status |-> "panic", error |-> msg, reads |-> reads,
     create |-> <<>>, cleanup |-> <<>>, addresses |-> <<>>, signers |-> <<>>,
     instructions |-> <<>>]

Locked(name) == name \in held

(***************************************************************************)
(* token.rs: TokenAccountStrategy and prepare_token_accounts_instructions  *)
(***************************************************************************)
WithoutBalance(mint) == [tag |-> "WithoutBalance", mint |-> mint, balance |-> 0]
WithBalance(mint, n) == [tag |-> "WithBalance", mint |-> mint, balance |-> n]

WrappingStrategies == {"None", "Ata", "Keypair", "Seed"}

\* the instructions the provisioner pushes, with the arguments as the code passes them
create_associated_token_account(a1, a2, a3, a4) ==
    [kind |-> "CreateAssociatedTokenAccount", funder |-> a1, wallet |-> a2,
     mint |-> a3, program |-> a4]
create_account(from, to, lamports, program) ==
    [kind |-> "CreateAccount", from |-> from, account |-> to,
     lamports |-> lamports, program |-> program]
create_account_with_seed(from, to, program) ==
    [kind |-> "CreateAccountWithSeed", from |-> from, account |-> to, program |-> program]
initialize_account3(program, account, mint, owner) ==
    [kind |-> "InitializeAccount3", program |-> program, account |-> account,
     mint |-> mint, owner |-> owner]
close_account(account, owner) ==
    [kind |-> "CloseAccount", account |-> account, owner |-> owner]
transfer(from, to, lamports) ==
    [kind |-> "Transfer", from |-> from, account |-> to, lamports |-> lamports]
sync_native(program, account) ==
    [kind |-> "SyncNative", program |-> program, account |-> account]

\* rpc.get_minimum_balance_for_rent_exemption(get_token_size())
RentExemptMinimum == 1

\* position(|x| x == NATIVE_MINT): the first index, or 0 for None
NativeMintIndex(mints) ==
    IF \E i \in 1..Len(mints) : mints[i] = NATIVE_MINT
    THEN CHOOSE i \in 1..Len(mints) :
            mints[i] = NATIVE_MINT /\ \A j \in 1..(i - 1) : mints[j] # NATIVE_MINT
    ELSE 0

\* filter(|x| x != NATIVE_MINT)
OrdinaryMints(mints) == SelectSeq(mints, LAMBDA m : m # NATIVE_MINT)

\* ata_addresses: the arguments in the order the code passes them
AtaAddressOf(owner, mint) ==
    get_associated_token_address_with_program_id(owner, GetMint(mint).owner, mint)

ShouldCreateAtaAlways(info) == TRUE

\* if ata_account_infos[i].is_some() { continue; }
ShouldCreateAta(info) == ~IsSome(info)

\* the loop over the ordinary mints: one create per absent associated account
RECURSIVE AtaCreates(_, _, _)
AtaCreates(owner, mint_addresses, i) ==
    IF i > Len(mint_addresses) THEN <<>>
    ELSE LET ata == AtaAddressOf(owner, mint_addresses[i])
             rest == AtaCreates(owner, mint_addresses, i + 1)
         IN IF ShouldCreateAta(GetToken(ata))
            THEN <<create_associated_token_account(
                      owner, ata, mint_addresses[i], GetMint(mint_addresses[i]).owner)>>
                 \o rest
            ELSE rest

\* token_account_addresses after the loop
AtaMap(owner, mint_addresses) ==
    [m \in {mint_addresses[i] : i \in 1..Len(mint_addresses)} |-> AtaAddressOf(owner, m)]

MapInsert(map, k, v) == [x \in DOMAIN map \cup {k} |-> IF x = k THEN v ELSE map[x]]

Ok(create, cleanup, addresses, signers, reads) ==
    [status |-> "ok", error |-> "", reads |-> reads,
     create |-> create, cleanup |-> cleanup, addresses |-> addresses,
     signers |-> signers, instructions |-> <<>>]

\* lamports of the new native account: the rent minimum, plus the balance
\* of a WithBalance strategy
NativeLamports(strategy) ==
    IF strategy.tag = "WithBalance" THEN RentExemptMinimum + strategy.balance
    ELSE RentExemptMinimum

KeypairBranchNoCleanup(owner, spec, idx, create, addresses, reads) ==
    Ok(create \o <<create_account(owner, NewKeypair, NativeLamports(spec[idx]),
                                  TOKEN_PROGRAM_ID),
                   initialize_account3(TOKEN_PROGRAM_ID, NewKeypair, NATIVE_MINT, owner)>>,
       <<>>,
       MapInsert(addresses, NATIVE_MINT, NewKeypair),
       <<NewKeypair>>, reads + 1)

KeypairBranchNoSigner(owner, spec, idx, create, addresses, reads) ==
    Ok(create \o <<create_account(owner, NewKeypair, NativeLamports(spec[idx]),
                                  TOKEN_PROGRAM_ID),
                   initialize_account3(TOKEN_PROGRAM_ID, NewKeypair, NATIVE_MINT, owner)>>,
       <<close_account(NewKeypair, owner)>>,
       MapInsert(addresses, NATIVE_MINT, NewKeypair),
       <<>>, reads + 1)

\* if has_native_mint && strategy == Keypair { ... }
KeypairBranch(owner, spec, idx, create, addresses, reads) ==
    Ok(create \o <<create_account(owner, NewKeypair, NativeLamports(spec[idx]),
                                  TOKEN_PROGRAM_ID),
                   initialize_account3(TOKEN_PROGRAM_ID, NewKeypair, NATIVE_MINT, owner)>>,
       <<close_account(NewKeypair, owner)>>,
       MapInsert(addresses, NATIVE_MINT, NewKeypair),
       <<NewKeypair>>, reads + 1)

\* if has_native_mint && strategy == Seed { ... }
SeedBranch(owner, spec, idx, now, create, addresses, reads) ==
    LET pubkey == SeedPubkey(owner, now)
    IN Ok(create \o <<create_account_with_seed(owner, pubkey, TOKEN_PROGRAM_ID),
                      initialize_account3(TOKEN_PROGRAM_ID, pubkey, NATIVE_MINT, owner)>>,
          <<close_account(pubkey, owner)>>,
          MapInsert(addresses, NATIVE_MINT, pubkey),
          <<>>, reads + 1)

\* if has_native_mint && strategy == Ata { ... }
AtaBranch(owner, spec, idx, mint_addresses, create, addresses, reads) ==
    IF idx > Len(mint_addresses)
    THEN Panic("index out of bounds", reads)   \* ata_account_infos[native_mint_index]
    ELSE
    LET account_info == GetToken(AtaAddressOf(owner, mint_addresses[idx]))
        existing_balance == IF IsSome(account_info) THEN account_info.amount ELSE 0
        native_ata_account ==
            get_associated_token_address_with_program_id(owner, NATIVE_MINT, TOKEN_PROGRAM_ID)
    IN IF IsSome(account_info) /\ account_info.st = "bad"
       THEN Err("Account::unpack", reads)
       ELSE IF spec[idx].tag = "WithBalance" /\ existing_balance < spec[idx].balance
       THEN IF NATIVE_MINT \in DOMAIN addresses
            THEN Ok(create \o
                      <<transfer(owner, addresses[NATIVE_MINT],
                                 spec[idx].balance - existing_balance),
                        sync_native(TOKEN_PROGRAM_ID, addresses[NATIVE_MINT])>>,
                    IF ~IsSome(account_info)
                    THEN <<close_account(native_ata_account, owner)>> ELSE <<>>,
                    addresses, <<>>, reads)
            ELSE Panic("token_account_addresses[&NATIVE_MINT]", reads)
       ELSE Ok(create,
               IF ~IsSome(account_info)
               THEN <<close_account(native_ata_account, owner)>> ELSE <<>>,
               addresses, <<>>, reads)

\* prepare_token_accounts_instructions(rpc, owner, spec); rpcUp: the rpc's
\* requests succeed; now: the clock's milliseconds
prepare_token_accounts_instructions(owner, spec, rpcUp, now) ==
    LET with_native == [i \in 1..Len(spec) |-> spec[i].mint]
        idx == NativeMintIndex(with_native)
        has_native_mint == idx # 0
        \* native_mint_index.unwrap_or(0), as a 1-based index
        at == IF has_native_mint THEN idx ELSE 1
        mint_addresses == OrdinaryMints(with_native)
        n == Len(mint_addresses)
        strategy == defaults.NATIVE_MINT_WRAPPING_STRATEGY
        create == AtaCreates(owner, mint_addresses, 1)
        addresses == AtaMap(owner, mint_addresses)
        reads == 2 * n
    IN IF Locked("NATIVE_MINT_WRAPPING_STRATEGY") THEN Err("try_lock", 0)
       ELSE IF n > 0 /\ ~rpcUp THEN Err("rpc", 1)
       ELSE IF \E i \in 1..n : ~IsSome(GetMint(mint_addresses[i]))
       THEN Err("mint account not found", n)
       ELSE IF \E i \in 1..n : GetMint(mint_addresses[i]).st = "bad"
       THEN Panic("Mint::unpack(..).unwrap()", n)
       ELSE IF has_native_mint /\ strategy \in {"Keypair", "Seed"} /\ ~rpcUp
       THEN Err("rpc", reads + 1)
       ELSE IF has_native_mint /\ strategy = "Keypair"
       THEN KeypairBranch(owner, spec, at, create, addresses, reads)
       ELSE IF has_native_mint /\ strategy = "Seed"
       THEN SeedBranch(owner, spec, at, now, create, addresses, reads)
       ELSE IF has_native_mint /\ strategy = "Ata"
       THEN AtaBranch(owner, spec, at, mint_addresses, create, addresses, reads)
       ELSE Ok(create, <<>>, addresses, <<>>, reads)

(***************************************************************************)
(* The ledgers and the requests the provisioner is run on.                 *)
(***************************************************************************)
TokenStates == {Absent, TokenBad} \cup {TokenOk(n) : n \in 0..MaxAmount}

\* a mint account and the account at the associated address of its token program
MintAndAta == {<<Absent, Absent>>, <<MintBad(TOKEN_PROGRAM_ID), Absent>>}
                 \cup {<<MintOk(p), t>> : p \in Programs, t \in TokenStates}

\* the second mint: absent, or a mint of the token program
MintAndAtaY == {<<Absent, Absent>>} \cup {<<MintOk(TOKEN_PROGRAM_ID), t>> : t \in {Absent, TokenOk(0)}}

LedgerMints == {MintX, MintY}

TokenAddresses(owner) ==
    {get_associated_token_address_with_program_id(owner, p, m) :
        p \in Programs, m \in LedgerMints}
    \cup {get_associated_token_address_with_program_id(owner, NATIVE_MINT, TOKEN_PROGRAM_ID)}

NoAccounts ==
    [mint |-> <<>>, token |-> <<>>, position |-> <<>>, pool |-> <<>>,
     config |-> <<>>, tier |-> <<>>, program_accounts |-> <<>>]

TokenLedgersOf(owner, xs, ys, ws) ==
    {[NoAccounts EXCEPT
        !.mint = [m \in LedgerMints |-> IF m = MintX THEN x[1] ELSE y[1]],
        !.token = [a \in TokenAddresses(owner) |->
            CASE a = get_associated_token_address_with_program_id(owner, x[1].owner, MintX)
                   -> x[2]
              [] a = get_associated_token_address_with_program_id(owner, y[1].owner, MintY)
                   -> y[2]
              [] a = get_associated_token_address_with_program_id(
                        owner, NATIVE_MINT, TOKEN_PROGRAM_ID) -> w
              [] OTHER -> Absent]] :
        x \in xs, y \in ys, w \in ws}

TokenLedgers(owner) == TokenLedgersOf(owner, MintAndAta, MintAndAtaY, TokenStates)

StrategyItems ==
    {WithoutBalance(m) : m \in {NATIVE_MINT, MintX, MintY}}
    \cup {WithBalance(NATIVE_MINT, b) : b \in 1..MaxBalance}

RECURSIVE SeqsUpTo(_, _)
SeqsUpTo(S, n) ==
    IF n = 0 THEN {<<>>}
    ELSE LET shorter == SeqsUpTo(S, n - 1)
         IN shorter \cup {Append(q, x) : q \in shorter, x \in S}

Requests == SeqsUpTo(StrategyItems, MaxSpecLen)

DefaultsInit ==
    [FUNDER |-> PubkeyDefault,
     WHIRLPOOLS_CONFIG_ADDRESS |-> ConfigKey1,
     WHIRLPOOLS_CONFIG_EXTENSION_ADDRESS |-> ExtensionKey1,
     NATIVE_MINT_WRAPPING_STRATEGY |-> "Keypair",
     SLIPPAGE_TOLERANCE_BPS |-> DefaultSlippage]

NoCall == [op |-> "none"]

(***************************************************************************)
(* Actions.                                                                *)
(***************************************************************************)
\* set_native_mint_wrapping_strategy
SetNativeMintWrappingStrategy ==
    /\ call = NoCall
    /\ ~Locked("NATIVE_MINT_WRAPPING_STRATEGY")
    /\ \E s \in WrappingStrategies :
          defaults' = [defaults EXCEPT !.NATIVE_MINT_WRAPPING_STRATEGY = s]
    /\ UNCHANGED <<ledger, held, call>>

\* another thread takes or releases the mutex of a default
OtherThreadLocks(name) ==
    /\ call = NoCall
    /\ held = {} \/ held = {name}
    /\ held' = IF name \in held THEN {} ELSE {name}
    /\ UNCHANGED <<ledger, defaults, call>>

\* the ledger moves on between two calls
LedgerChanges(ledgers) ==
    /\ call = NoCall
    /\ ledger' \in ledgers
    /\ Cardinality({f \in DOMAIN ledger : ledger[f] # ledger'[f]}) = 1
    /\ UNCHANGED <<defaults, held, call>>

\* the caller takes the result of the call; the next call starts afresh
TakeResult ==
    /\ call # NoCall
    /\ call' = NoCall
    /\ UNCHANGED <<ledger, defaults, held>>

PrepareCall ==
    /\ call = NoCall
    /\ \E spec \in Requests, rpcUp \in BOOLEAN, now \in 1..MaxTime :
          call' = [op |-> "prepare", owner |-> Wallet, spec |-> spec, rpcUp |-> rpcUp,
                   out |-> prepare_token_accounts_instructions(Wallet, spec, rpcUp, now)]
    /\ UNCHANGED <<ledger, defaults, held>>

InitToken ==
    /\ ledger \in TokenLedgers(Wallet)
    /\ defaults = DefaultsInit
    /\ held = {}
    /\ call = NoCall

NextToken ==
    \/ PrepareCall
    \/ TakeResult
    \/ SetNativeMintWrappingStrategy
    \/ OtherThreadLocks("NATIVE_MINT_WRAPPING_STRATEGY")
    \/ LedgerChanges(TokenLedgers(Wallet))

SpecToken == InitToken /\ [][NextToken]_vars

(***************************************************************************)
(* order_mints on its own: the inputs are drawn from all keys of two bytes *)
(* up to MaxByte, and the keys the other specifications use.               *)
(***************************************************************************)
MaxByte == 3

OrderKeys == {<<a, b>> : a \in 0..MaxByte, b \in 0..MaxByte}
                \cup {NATIVE_MINT, MintX, MintY, MintZ}

OrderCall ==
    /\ call = NoCall
    /\ \E mint1 \in OrderKeys, mint2 \in OrderKeys :
          call' = [op |-> "order_mints", mint1 |-> mint1, mint2 |-> mint2,
                   out |-> order_mints(mint1, mint2)]
    /\ UNCHANGED <<ledger, defaults, held>>

InitOrder ==
    /\ ledger = NoAccounts
    /\ defaults = DefaultsInit
    /\ held = {}
    /\ call = NoCall

NextOrder == OrderCall \/ TakeResult

SpecOrder == InitOrder /\ [][NextOrder]_vars

(***************************************************************************)
(* Claims about the provisioner (SpecToken).                               *)
(***************************************************************************)
PrepareReturned == call.op = "prepare" /\ call.out.status = "ok"

RequestedMints == {call.spec[i].mint : i \in 1..Len(call.spec)}

NativeRequested == NATIVE_MINT \in RequestedMints

\* the first strategy of the request that names the native mint
NativeStrategy ==
    call.spec[CHOOSE i \in 1..Len(call.spec) :
                 /\ call.spec[i].mint = NATIVE_MINT
                 /\ \A j \in 1..(i - 1) : call.spec[j].mint # NATIVE_MINT]

Positions(instructions, kind) ==
    {i \in 1..Len(instructions) : instructions[i].kind = kind}

NativeAta(owner) ==
    get_associated_token_address_with_program_id(owner, NATIVE_MINT, TOKEN_PROGRAM_ID)

\* C4: under the Keypair strategy a returned result for a request with the
\* native mint holds exactly one create-account instruction, for a key no
\* account of the ledger has, and exactly one cleanup instruction, the close of
\* that account, whatever the native associated account holds.
C4_KeypairOneCreateOneCleanup ==
    (PrepareReturned /\ NativeRequested
        /\ defaults.NATIVE_MINT_WRAPPING_STRATEGY = "Keypair") =>
        LET made == Positions(call.out.create, "CreateAccount")
        IN /\ Cardinality(made) = 1
           /\ Positions(call.out.create, "CreateAccountWithSeed") = {}
           /\ \A k \in made :
                 /\ call.out.create[k].account \notin DOMAIN ledger.token
                 /\ call.out.create[k].account # NativeAta(call.owner)
                 /\ Len(call.out.cleanup) = 1
                 /\ call.out.cleanup[1].kind = "CloseAccount"
                 /\ call.out.cleanup[1].account = call.out.create[k].account

\* the Keypair strategy on a ledger where the native associated account
\* exists and holds a balance
C4_Witness ==
    /\ PrepareReturned
    /\ defaults.NATIVE_MINT_WRAPPING_STRATEGY = "Keypair"
    /\ call.spec = <<WithBalance(NATIVE_MINT, MaxBalance), WithoutBalance(MintX)>>
    /\ GetToken(NativeAta(call.owner)) = TokenOk(MaxAmount)
    /\ Len(call.out.cleanup) = 1

\* C5: under the Ata strategy, for a request with the native mint and a
\* required balance R (0 for WithoutBalance) and a native associated account
\* holding E (0 when absent), a call that does not end in an error result
\* returns: no transfer if E >= R; one transfer of R - E into the native
\* associated account followed by its sync if E < R; and the close of that
\* account as cleanup if and only if it was absent.
C5_AtaFundsShortfall ==
    (call.op = "prepare" /\ NativeRequested /\ call.out.status # "err"
        /\ defaults.NATIVE_MINT_WRAPPING_STRATEGY = "Ata") =>
        LET ata == NativeAta(call.owner)
            R == NativeStrategy.balance
            E == IF IsSome(GetToken(ata)) THEN GetToken(ata).amount ELSE 0
            sent == Positions(call.out.create, "Transfer")
            closed == Positions(call.out.cleanup, "CloseAccount")
        IN /\ call.out.status = "ok"
           /\ E >= R => sent = {}
           /\ E < R =>
                /\ Cardinality(sent) = 1
                /\ \A k \in sent :
                      /\ call.out.create[k].account = ata
                      /\ call.out.create[k].lamports = R - E
                      /\ k < Len(call.out.create)
                      /\ call.out.create[k + 1].kind = "SyncNative"
                      /\ call.out.create[k + 1].account = ata
           /\ (\E k \in closed : call.out.cleanup[k].account = ata)
                <=> ~IsSome(GetToken(ata))

(***************************************************************************)
(* Claims about order_mints (SpecOrder).                                   *)
(***************************************************************************)
\* C6: order_mints(A, B) equals order_mints(B, A), is a permutation of
\* <<A, B>>, and its first element is byte-wise smaller than or equal to its
\* second.
C6_OrderMintsCanonical ==
    call.op = "order_mints" =>
        /\ call.out = order_mints(call.mint2, call.mint1)
        /\ \/ call.out = <<call.mint1, call.mint2>>
           \/ call.out = <<call.mint2, call.mint1>>
        /\ \/ call.out[1][1] < call.out[2][1]
           \/ call.out[1][1] = call.out[2][1] /\ call.out[1][2] <= call.out[2][2]

\* order_mints called with the byte-wise larger mint first, the two differing
\* only in their last byte
C6_Witness ==
    /\ call.op = "order_mints"
    /\ call.mint1 = MintY
    /\ call.mint2 = MintX
    /\ call.out = <<MintX, MintY>>

\* Option<T>: None, Some(x) and unwrap_or
None == <<>>
Some(x) == <<x>>
UnwrapOr(option, default) == IF Len(option) = 0 THEN default ELSE option[1]

(***************************************************************************)
(* The tick arithmetic of the core crate, on the tick range of the model.  *)
(***************************************************************************)
\* Rust's integer division truncates towards zero
TruncDiv(a, b) == IF a >= 0 THEN a \div b ELSE -((-a) \div b)

\* get_full_range_tick_indexes(tick_spacing)
FullRangeLower(tick_spacing) == TruncDiv(-MaxTickIndex, tick_spacing) * tick_spacing
FullRangeUpper(tick_spacing) == TruncDiv(MaxTickIndex, tick_spacing) * tick_spacing

\* get_tick_array_start_tick_index(tick_index, tick_spacing): div_euclid twice
get_tick_array_start_tick_index(tick_index, tick_spacing) ==
    ((tick_index \div tick_spacing) \div TickArraySize) * tick_spacing * TickArraySize

\* sqrt_price_to_tick_index(price_to_sqrt_price(initial_price, ..)): a price is
\* written as the tick it falls in; None is the price 1.0, tick 0
InitialTickIndex(initial_price) == UnwrapOr(initial_price, 0)

(***************************************************************************)
(* create_pool.rs: create_concentrated_liquidity_pool_instructions         *)
(***************************************************************************)
TokenOrderUnchecked(token_a, token_b) == TRUE

\* assert!(token_a.to_bytes() < token_b.to_bytes(), ..)
TokenOrderOk(token_a, token_b) == BytesLt(token_a, token_b)

RECURSIVE Orderings(_)
Orderings(S) ==
    IF S = {} THEN {<<>>}
    ELSE UNION {{<<x>> \o q : q \in Orderings(S \ {x})} : x \in S}

TickArrayIndexesVec(lower, upper, current) == {<<lower, upper, current>>}

\* HashSet::from([lower, upper, current]) and the orders its iteration can take
TickArrayIndexes(lower, upper, current) == Orderings({lower, upper, current})

InitializeTickArray(pool_address, funder, start_tick_index) ==
    [kind |-> "InitializeTickArray", whirlpool |-> pool_address,
     tick_array |-> get_tick_array_address(pool_address, start_tick_index),
     funder |-> funder, start_tick_index |-> start_tick_index]

OkPool(instructions, state_space, pool_address, signers, reads) ==
    [status |-> "ok", error |-> "", reads |-> reads, instructions |-> instructions,
     est_initialization_cost |-> state_space, pool_address |-> pool_address,
     signers |-> signers]

\* the body from the pool address on; order: the order the HashSet iterates
\* in.  Each use of a default is a read of its own: config_pool at line 79,
\* extension_fee at 86, extension_a at 91, extension_b at 96, config_ix at 108
CreatePoolBatchOf(token_a, token_b, tick_spacing, initial_price, funder, order, config_pool, extension_fee, extension_a, extension_b, config_ix) ==
    LET pool_address == get_whirlpool_address(config_pool, token_a, token_b, tick_spacing)
        token_vault_a == Keypair_new(1)
        token_vault_b == Keypair_new(2)
        pool == [kind |-> "InitializePoolV2",
                 whirlpools_config |-> config_ix,
                 token_mint_a |-> token_a,
                 token_mint_b |-> token_b,
                 token_badge_a |-> get_token_badge_address(extension_a, token_a),
                 token_badge_b |-> get_token_badge_address(extension_b, token_b),
                 funder |-> funder,
                 whirlpool |-> pool_address,
                 token_vault_a |-> token_vault_a,
                 token_vault_b |-> token_vault_b,
                 fee_tier |-> get_fee_tier_address(extension_fee, tick_spacing),
                 token_program_a |-> GetMint(token_a).owner,
                 token_program_b |-> GetMint(token_b).owner,
                 tick_spacing |-> tick_spacing,
                 initial_tick_index |-> InitialTickIndex(initial_price)]
        arrays == [i \in 1..Len(order) |->
                      InitializeTickArray(pool_address, funder, order[i])]
    IN OkPool(<<pool>> \o arrays,
              [whirlpools |-> 1, token_accounts |-> 2, tick_arrays |-> Len(order)],
              pool_address, <<token_vault_a, token_vault_b>>, 3)

\* the same when no other thread runs between the reads of the call
CreatePoolBatch(token_a, token_b, tick_spacing, initial_price, funder, order) ==
    CreatePoolBatchOf(token_a, token_b, tick_spacing, initial_price, funder, order,
                      defaults.WHIRLPOOLS_CONFIG_ADDRESS,
                      defaults.WHIRLPOOLS_CONFIG_EXTENSION_ADDRESS,
                      defaults.WHIRLPOOLS_CONFIG_EXTENSION_ADDRESS,
                      defaults.WHIRLPOOLS_CONFIG_EXTENSION_ADDRESS,
                      defaults.WHIRLPOOLS_CONFIG_ADDRESS)

\* the orders in which one call can emit its tick arrays
TickArrayOrders(tick_spacing, initial_price) ==
    TickArrayIndexes(
        get_tick_array_start_tick_index(FullRangeLower(tick_spacing), tick_spacing),
        get_tick_array_start_tick_index(FullRangeUpper(tick_spacing), tick_spacing),
        get_tick_array_start_tick_index(InitialTickIndex(initial_price), tick_spacing))

create_concentrated_liquidity_pool_instructions(token_a, token_b, tick_spacing, initial_price, funder_arg, rpcUp, order) ==
    LET funder == UnwrapOr(funder_arg, defaults.FUNDER)
    IN IF Locked("FUNDER") THEN Err("try_lock", 0)
       ELSE IF funder = PubkeyDefault THEN Panic("Funder must be provided", 0)
       ELSE IF ~TokenOrderOk(token_a, token_b)
       THEN Panic("Token order needs to be flipped", 0)
       ELSE IF ~rpcUp THEN Err("rpc", 1)
       ELSE IF ~IsSome(GetMint(token_a)) THEN Err("Mint not found", 1)
       ELSE IF GetMint(token_a).st = "bad" THEN Err("Mint::unpack", 1)
       ELSE IF ~IsSome(GetMint(token_b)) THEN Err("Mint not found", 2)
       ELSE IF GetMint(token_b).st = "bad" THEN Err("Mint::unpack", 2)
       ELSE IF Locked("WHIRLPOOLS_CONFIG_ADDRESS") THEN Err("try_lock", 2)
       ELSE IF Locked("WHIRLPOOLS_CONFIG_EXTENSION_ADDRESS") THEN Err("try_lock", 2)
       ELSE CreatePoolBatch(token_a, token_b, tick_spacing, initial_price, funder, order)

\* create_splash_pool_instructions: the same with the splash pools' tick spacing
SPLASH_POOL_TICK_SPACING == MaxTickSpacing

(***************************************************************************)
(* The create-pool specification.                                          *)
(***************************************************************************)
PoolLedgers ==
    {[NoAccounts EXCEPT !.mint = [m \in LedgerMints |-> IF m = MintX THEN x ELSE y]] :
        x \in {Absent, MintBad(TOKEN_PROGRAM_ID)} \cup {MintOk(p) : p \in Programs},
        y \in {Absent, MintOk(TOKEN_PROGRAM_ID)}}

InitialPrices == {None, Some(-MaxTickIndex), Some(MaxTickIndex), Some(MaxTickIndex - 1 - TickArraySize)}

FunderArgs == {None, Some(PubkeyDefault), Some(Wallet)}

CreatePoolCall ==
    /\ call = NoCall
    /\ \E token_a \in LedgerMints, token_b \in LedgerMints,
          tick_spacing \in 1..MaxTickSpacing, initial_price \in InitialPrices,
          funder \in FunderArgs, rpcUp \in BOOLEAN :
          \E order \in TickArrayOrders(tick_spacing, initial_price) :
            call' = [op |-> "create_pool", token_a |-> token_a, token_b |-> token_b,
                     tick_spacing |-> tick_spacing, initial_price |-> initial_price,
                     funder |-> funder, rpcUp |-> rpcUp,
                     out |-> create_concentrated_liquidity_pool_instructions(
                                token_a, token_b, tick_spacing, initial_price,
                                funder, rpcUp, order)]
    /\ UNCHANGED <<ledger, defaults, held>>

CreateSplashPoolCall ==
    /\ call = NoCall
    /\ \E token_a \in LedgerMints, token_b \in LedgerMints,
          initial_price \in InitialPrices, funder \in FunderArgs, rpcUp \in BOOLEAN :
          \E order \in TickArrayOrders(SPLASH_POOL_TICK_SPACING, initial_price) :
            call' = [op |-> "create_pool", token_a |-> token_a, token_b |-> token_b,
                     tick_spacing |-> SPLASH_POOL_TICK_SPACING,
                     initial_price |-> initial_price,
                     funder |-> funder, rpcUp |-> rpcUp,
                     out |-> create_concentrated_liquidity_pool_instructions(
                                token_a, token_b, SPLASH_POOL_TICK_SPACING,
                                initial_price, funder, rpcUp, order)]
    /\ UNCHANGED <<ledger, defaults, held>>

\* set_funder, set_whirlpools_config_address
SetFunder ==
    /\ call = NoCall
    /\ ~Locked("FUNDER")
    /\ \E f \in {PubkeyDefault, Wallet} : defaults' = [defaults EXCEPT !.FUNDER = f]
    /\ UNCHANGED <<ledger, held, call>>

SetWhirlpoolsConfigAddress ==
    /\ call = NoCall
    /\ ~Locked("WHIRLPOOLS_CONFIG_ADDRESS")
    /\ ~Locked("WHIRLPOOLS_CONFIG_EXTENSION_ADDRESS")
    /\ \E c \in {<<ConfigKey1, ExtensionKey1>>, <<ConfigKey2, ExtensionKey2>>} :
          defaults' = [defaults EXCEPT !.WHIRLPOOLS_CONFIG_ADDRESS = c[1],
                                       !.WHIRLPOOLS_CONFIG_EXTENSION_ADDRESS = c[2]]
    /\ UNCHANGED <<ledger, held, call>>

InitPool ==
    /\ ledger \in PoolLedgers
    /\ defaults = DefaultsInit
    /\ held = {}
    /\ call = NoCall

NextPool ==
    \/ CreatePoolCall
    \/ CreateSplashPoolCall
    \/ TakeResult
    \/ SetFunder
    \/ SetWhirlpoolsConfigAddress
    \/ OtherThreadLocks("FUNDER")
    \/ OtherThreadLocks("WHIRLPOOLS_CONFIG_ADDRESS")
    \/ OtherThreadLocks("WHIRLPOOLS_CONFIG_EXTENSION_ADDRESS")
    \/ LedgerChanges(PoolLedgers)

SpecPool == InitPool /\ [][NextPool]_vars

(***************************************************************************)
(* decrease_liquidity.rs                                                   *)
(***************************************************************************)
NoPosition == [st |-> "absent", whirlpool |-> PubkeyDefault,
               tick_lower_index |-> 0, tick_upper_index |-> 0]
PositionOk(whirlpool, lower, upper) ==
    [st |-> "ok", whirlpool |-> whirlpool,
     tick_lower_index |-> lower, tick_upper_index |-> upper]
PositionBad == [NoPosition EXCEPT !.st = "bad"]

NoWhirlpool == [st |-> "absent", whirlpools_config |-> PubkeyDefault,
                token_mint_a |-> PubkeyDefault, token_mint_b |-> PubkeyDefault,
                tick_spacing |-> 1, fee_rate |-> 0, protocol_fee_rate |-> 0]
WhirlpoolOk(mint_a, mint_b, tick_spacing) ==
    [st |-> "ok", whirlpools_config |-> ConfigKey1,
     token_mint_a |-> mint_a, token_mint_b |-> mint_b,
     tick_spacing |-> tick_spacing, fee_rate |-> tick_spacing, protocol_fee_rate |-> 0]
WhirlpoolBad == [NoWhirlpool EXCEPT !.st = "bad"]

GetPosition(a) == IF a \in DOMAIN ledger.position THEN ledger.position[a] ELSE NoPosition
GetPool(a) == IF a \in DOMAIN ledger.pool THEN ledger.pool[a] ELSE NoWhirlpool

\* the vaults of a pool: fields of its account, one per side
VaultOf(pool_address, side) == Derived("vault", pool_address, PubkeyDefault, PubkeyDefault, side)

AuthorityCheckAsClaimed(authority) == authority = PubkeyDefault

\* if authority != Pubkey::default() { return Err("Authority must be provided") }
AuthorityRejected(authority) == authority # PubkeyDefault

\* DecreaseLiquidityParam and the quote of the core crate for it
DecreaseLiquidityParams == {[tag |-> t, amount |-> 1] : t \in {"TokenA", "TokenB", "Liquidity"}}

QuoteOf(param, slippage_tolerance_bps) ==
    [liquidity_delta |-> param, slippage_tolerance_bps |-> slippage_tolerance_bps]

OkDecrease(instructions, quote, signers, reads) ==
    [status |-> "ok", error |-> "", reads |-> reads, instructions |-> instructions,
     quote |-> quote, signers |-> signers]

DecreaseBatchCleanupFirst(create, cleanup, protocol) == create \o cleanup \o <<protocol>>

\* instructions.extend(create); instructions.push(DecreaseLiquidityV2);
\* instructions.extend(cleanup)
DecreaseBatch(create, cleanup, protocol) == create \o <<protocol>> \o cleanup

decrease_liquidity_instructions(position_mint_address, param, slippage_arg, authority_arg, fault, now) ==
    LET slippage_tolerance_bps == UnwrapOr(slippage_arg, defaults.SLIPPAGE_TOLERANCE_BPS)
        authority == UnwrapOr(authority_arg, defaults.FUNDER)
        position_address == get_position_address(position_mint_address)
        position == GetPosition(position_address)
        pool == GetPool(position.whirlpool)
        quote == QuoteOf(param, slippage_tolerance_bps)
        lower == get_tick_array_start_tick_index(position.tick_lower_index, pool.tick_spacing)
        upper == get_tick_array_start_tick_index(position.tick_upper_index, pool.tick_spacing)
        token_accounts ==
            prepare_token_accounts_instructions(
                authority,
                <<WithoutBalance(pool.token_mint_a), WithoutBalance(pool.token_mint_b)>>,
                TRUE, now)
        protocol ==
            [kind |-> "DecreaseLiquidityV2",
             whirlpool |-> position.whirlpool,
             token_program_a |-> GetMint(pool.token_mint_a).owner,
             token_program_b |-> GetMint(pool.token_mint_b).owner,
             position_authority |-> authority,
             position |-> position_address,
             position_token_account |->
                get_associated_token_address_with_program_id(
                    authority, position_mint_address, GetMint(position_mint_address).owner),
             token_mint_a |-> pool.token_mint_a,
             token_mint_b |-> pool.token_mint_b,
             token_owner_account_a |-> token_accounts.addresses[pool.token_mint_a],
             token_owner_account_b |-> token_accounts.addresses[pool.token_mint_b],
             token_vault_a |-> VaultOf(position.whirlpool, 1),
             token_vault_b |-> VaultOf(position.whirlpool, 2),
             tick_array_lower |-> get_tick_array_address(position.whirlpool, lower),
             tick_array_upper |-> get_tick_array_address(position.whirlpool, upper),
             quote |-> quote]
    IN IF Locked("SLIPPAGE_TOLERANCE_BPS") \/ Locked("FUNDER") THEN Err("try_lock", 0)
       ELSE IF AuthorityRejected(authority) THEN Err("Authority must be provided", 0)
       ELSE IF fault = "rpc" THEN Err("rpc", 1)
       ELSE IF ~IsSome(position) THEN Err("AccountNotFound", 1)
       ELSE IF position.st = "bad" THEN Err("Position::from_bytes", 1)
       ELSE IF ~IsSome(pool) THEN Err("AccountNotFound", 2)
       ELSE IF pool.st = "bad" THEN Err("Whirlpool::from_bytes", 2)
       ELSE IF ~IsSome(GetMint(pool.token_mint_a)) THEN Err("Token A mint info not found", 3)
       ELSE IF ~IsSome(GetMint(pool.token_mint_b)) THEN Err("Token B mint info not found", 3)
       ELSE IF ~IsSome(GetMint(position_mint_address))
       THEN Err("Position mint info not found", 3)
       ELSE IF fault = "quote" THEN Err("quote", 4)
       ELSE IF token_accounts.status = "err"
       THEN Err(token_accounts.error, 4 + token_accounts.reads)
       ELSE IF token_accounts.status = "panic"
       THEN Panic(token_accounts.error, 4 + token_accounts.reads)
       ELSE IF \/ pool.token_mint_a \notin DOMAIN token_accounts.addresses
               \/ pool.token_mint_b \notin DOMAIN token_accounts.addresses
       THEN Panic("token_account_addresses.get(..).unwrap()", 4 + token_accounts.reads)
       ELSE OkDecrease(
                DecreaseBatch(token_accounts.create, token_accounts.cleanup, protocol),
                quote, token_accounts.signers, 4 + token_accounts.reads)

\* close_position_instructions: the body ends after the authority check
close_position_instructions(position_mint_address, slippage_arg, authority_arg) ==
    LET authority == UnwrapOr(authority_arg, defaults.FUNDER)
    IN IF Locked("SLIPPAGE_TOLERANCE_BPS") \/ Locked("FUNDER") THEN Err("try_lock", 0)
       ELSE IF AuthorityRejected(authority) THEN Err("Authority must be provided", 0)
       ELSE [status |-> "no body", error |-> "", reads |-> 0, instructions |-> <<>>]

(***************************************************************************)
(* The decrease-liquidity specification.                                   *)
(***************************************************************************)
PositionPool(mint_a, mint_b) == get_whirlpool_address(ConfigKey1, mint_a, mint_b, 1)

PoolPairs == {<<MintX, MintY>>, <<MintX, NATIVE_MINT>>}

\* the ledgers by how far a call gets on them: no position, no pool, and the
\* pools of the two pairs with the accounts of the authority
DecreaseLedgers ==
    {[NoAccounts EXCEPT !.position = [a \in {get_position_address(PositionMint)} |-> q]] :
        q \in {NoPosition, PositionBad}}
    \cup
    {[NoAccounts EXCEPT
        !.position = [a \in {get_position_address(PositionMint)} |->
                        PositionOk(PositionPool(MintX, MintY), -1, 1)],
        !.pool = [a \in {PositionPool(MintX, MintY)} |-> w]] :
        w \in {NoWhirlpool, WhirlpoolBad}}
    \cup
    {[t EXCEPT
        !.position = [a \in {get_position_address(PositionMint)} |->
                        PositionOk(PositionPool(pair[1], pair[2]), -1, 1)],
        !.pool = [a \in {PositionPool(pair[1], pair[2])} |->
                        WhirlpoolOk(pair[1], pair[2], 1)],
        !.mint = [m \in LedgerMints \cup {NATIVE_MINT, PositionMint} |->
                    IF m \in LedgerMints THEN t.mint[m]
                    ELSE IF m = PositionMint THEN pm
                    ELSE MintOk(TOKEN_PROGRAM_ID)]] :
        pair \in PoolPairs,
        pm \in {Absent, MintOk(TOKEN_PROGRAM_ID)},
        t \in TokenLedgersOf(PubkeyDefault,
                {<<Absent, Absent>>, <<MintOk(TOKEN_PROGRAM_ID), Absent>>,
                 <<MintOk(TOKEN_2022_PROGRAM_ID), TokenOk(0)>>},
                {<<MintOk(TOKEN_PROGRAM_ID), Absent>>,
                 <<MintOk(TOKEN_PROGRAM_ID), TokenOk(0)>>, <<MintBad(TOKEN_PROGRAM_ID), Absent>>},
                {Absent})}

AuthorityArgs == {None, Some(PubkeyDefault), Some(Wallet)}

DecreaseLiquidityCall ==
    /\ call = NoCall
    /\ \E param \in DecreaseLiquidityParams, slippage \in {None, Some(0)},
          authority \in AuthorityArgs, fault \in {"none", "rpc", "quote"},
          now \in 1..MaxTime :
          call' = [op |-> "decrease_liquidity", position_mint |-> PositionMint,
                   param |-> param, slippage |-> slippage, authority |-> authority,
                   fault |-> fault,
                   out |-> decrease_liquidity_instructions(
                              PositionMint, param, slippage, authority, fault, now)]
    /\ UNCHANGED <<ledger, defaults, held>>

ClosePositionCall ==
    /\ call = NoCall
    /\ \E slippage \in {None, Some(0)}, authority \in AuthorityArgs :
          call' = [op |-> "close_position", position_mint |-> PositionMint,
                   slippage |-> slippage, authority |-> authority,
                   out |-> close_position_instructions(PositionMint, slippage, authority)]
    /\ UNCHANGED <<ledger, defaults, held>>

InitDecrease ==
    /\ ledger \in DecreaseLedgers
    /\ defaults = DefaultsInit
    /\ held = {}
    /\ call = NoCall

NextDecrease ==
    \/ DecreaseLiquidityCall
    \/ ClosePositionCall
    \/ TakeResult
    \/ SetFunder
    \/ SetNativeMintWrappingStrategy
    \/ OtherThreadLocks("FUNDER")
    \/ OtherThreadLocks("SLIPPAGE_TOLERANCE_BPS")
    \/ OtherThreadLocks("NATIVE_MINT_WRAPPING_STRATEGY")
    \/ LedgerChanges(DecreaseLedgers)

SpecDecrease == InitDecrease /\ [][NextDecrease]_vars

(***************************************************************************)
(* pool.rs: fetch_concentrated_liquidity_pool, fetch_whirlpools_by_token_pair *)
(***************************************************************************)
NoConfig == [st |-> "absent", default_protocol_fee_rate |-> 0]
ConfigOk(rate) == [st |-> "ok", default_protocol_fee_rate |-> rate]
ConfigBad == [NoConfig EXCEPT !.st = "bad"]

NoFeeTier == [st |-> "absent", whirlpools_config |-> PubkeyDefault,
              tick_spacing |-> 0, default_fee_rate |-> 0]
FeeTierOk(config, tick_spacing, rate) ==
    [st |-> "ok", whirlpools_config |-> config,
     tick_spacing |-> tick_spacing, default_fee_rate |-> rate]
FeeTierBad == [NoFeeTier EXCEPT !.st = "bad"]

GetConfig(a) == IF a \in DOMAIN ledger.config THEN ledger.config[a] ELSE NoConfig
GetFeeTier(a) == IF a \in DOMAIN ledger.tier THEN ledger.tier[a] ELSE NoFeeTier

\* PoolInfo::Initialized(InitializedPool::from_bytes(..))
Initialized(whirlpool) == [tag |-> "Initialized", state |-> whirlpool]

\* PoolInfo::Uninitialized(UninitializedPool { .. })
Uninitialized(config, tick_spacing, fee_rate, protocol_fee_rate, mint_a, mint_b) ==
    [tag |-> "Uninitialized",
     state |-> [whirlpools_config |-> config, tick_spacing |-> tick_spacing,
                fee_rate |-> fee_rate, protocol_fee_rate |-> protocol_fee_rate,
                token_mint_a |-> mint_a, token_mint_b |-> mint_b]]

OkFetch(pools, reads) ==
    [status |-> "ok", error |-> "", reads |-> reads, instructions |-> <<>>,
     pools |-> pools]

PoolInfoOfSwapped(whirlpool_info, config_address, fee_tier, whirlpools_config, mint_a, mint_b) ==
    IF ~IsSome(whirlpool_info) THEN Initialized(whirlpool_info)
    ELSE Uninitialized(config_address, fee_tier.tick_spacing, fee_tier.default_fee_rate,
                       whirlpools_config.default_protocol_fee_rate, mint_a, mint_b)

\* if let Some(whirlpool_info) = .. { Initialized } else { Uninitialized }
PoolInfoOf(whirlpool_info, config_address, fee_tier, whirlpools_config, mint_a, mint_b) ==
    IF IsSome(whirlpool_info) THEN Initialized(whirlpool_info)
    ELSE Uninitialized(config_address, fee_tier.tick_spacing, fee_tier.default_fee_rate,
                       whirlpools_config.default_protocol_fee_rate, mint_a, mint_b)

\* the checks both functions make on the config and the two mints
ConfigAndMintsError(config_address, token_a, token_b) ==
    IF ~IsSome(GetConfig(config_address)) THEN "Whirlpools config not found"
    ELSE IF GetConfig(config_address).st = "bad" THEN "WhirlpoolsConfig::from_bytes"
    ELSE IF ~IsSome(GetMint(token_a)) \/ ~IsSome(GetMint(token_b)) THEN "Mint not found"
    ELSE IF GetMint(token_a).st = "bad" \/ GetMint(token_b).st = "bad" THEN "Mint::unpack"
    ELSE ""

fetch_concentrated_liquidity_pool(token_1, token_2, tick_spacing, rpcUp) ==
    LET config_address == defaults.WHIRLPOOLS_CONFIG_ADDRESS
        ordered == order_mints(token_1, token_2)
        token_a == ordered[1]
        token_b == ordered[2]
        whirlpool_pda == get_whirlpool_address(config_address, token_a, token_b, tick_spacing)
        fee_tier == GetFeeTier(get_fee_tier_address(config_address, tick_spacing))
        whirlpool_info == GetPool(whirlpool_pda)
    IN IF Locked("WHIRLPOOLS_CONFIG_ADDRESS") THEN Err("try_lock", 0)
       ELSE IF ~rpcUp THEN Err("rpc", 1)
       ELSE IF ~IsSome(GetConfig(config_address)) THEN Err("Whirlpools config not found", 1)
       ELSE IF GetConfig(config_address).st = "bad"
       THEN Err("WhirlpoolsConfig::from_bytes", 1)
       ELSE IF ~IsSome(fee_tier) THEN Err("Fee tier not found", 1)
       ELSE IF fee_tier.st = "bad" THEN Err("FeeTier::from_bytes", 1)
       ELSE IF ~IsSome(GetMint(token_a)) THEN Err("Mint not found", 1)
       ELSE IF GetMint(token_a).st = "bad" THEN Err("Mint::unpack", 1)
       ELSE IF ~IsSome(GetMint(token_b)) THEN Err("Mint not found", 1)
       ELSE IF GetMint(token_b).st = "bad" THEN Err("Mint::unpack", 1)
       ELSE IF whirlpool_info.st = "bad" THEN Err("Whirlpool::from_bytes", 1)
       ELSE OkFetch(<<PoolInfoOf(whirlpool_info, config_address,
                                 [fee_tier EXCEPT !.tick_spacing = tick_spacing],
                                 GetConfig(config_address), token_a, token_b)>>, 1)

fetch_whirlpools_by_token_pair(token_1, token_2, rpcUp) ==
    LET config_address == defaults.WHIRLPOOLS_CONFIG_ADDRESS
        ordered == order_mints(token_1, token_2)
        token_a == ordered[1]
        token_b == ordered[2]
        \* rpc.get_program_accounts_with_config(&WHIRLPOOL_ID, filters)
        fee_tiers == ledger.program_accounts
        whirlpool_infos ==
            [i \in 1..Len(fee_tiers) |->
                GetPool(get_whirlpool_address(config_address, token_a, token_b,
                                              fee_tiers[i].tick_spacing))]
        problem == ConfigAndMintsError(config_address, token_a, token_b)
    IN IF Locked("WHIRLPOOLS_CONFIG_ADDRESS") THEN Err("try_lock", 0)
       ELSE IF ~rpcUp THEN Err("rpc", 1)
       ELSE IF \E i \in 1..Len(fee_tiers) : fee_tiers[i].st = "bad"
       THEN Err("FeeTier::from_bytes", 1)
       ELSE IF problem # "" THEN Err(problem, 2)
       ELSE IF \E i \in 1..Len(fee_tiers) : whirlpool_infos[i].st = "bad"
       THEN Err("Whirlpool::from_bytes", 3)
       ELSE OkFetch([i \in 1..Len(fee_tiers) |->
                        PoolInfoOf(whirlpool_infos[i], config_address, fee_tiers[i],
                                   GetConfig(config_address), token_a, token_b)], 3)

(***************************************************************************)
(* The pool-discovery specification.                                       *)
(***************************************************************************)
\* the fee tier of a tick spacing under the first config, and its default rate
TierRate(tick_spacing) == tick_spacing + MaxFeeRate
TierOf(tick_spacing) == FeeTierOk(ConfigKey1, tick_spacing, TierRate(tick_spacing))

\* what get_program_accounts can return for the filters of the call
ProgramAccountLists ==
    {<<>>, <<TierOf(1)>>, <<TierOf(MaxTickSpacing), TierOf(1)>>, <<TierOf(1), FeeTierBad>>,
     <<TierOf(1), FeeTierOk(ConfigKey2, 1, 0)>>}

FetchLedgers ==
    {[NoAccounts EXCEPT
        !.mint = [m \in LedgerMints |-> IF m = MintX THEN x ELSE MintOk(TOKEN_PROGRAM_ID)],
        !.config = [a \in {ConfigKey1} |-> c],
        !.tier = [a \in {get_fee_tier_address(ConfigKey1, ts) : ts \in 1..MaxTickSpacing} |->
                    IF a = get_fee_tier_address(ConfigKey1, 1) THEN t
                    ELSE TierOf(a[5])],
        !.program_accounts = l,
        !.pool = [a \in {get_whirlpool_address(ConfigKey1, MintX, MintY, ts) :
                            ts \in 1..MaxTickSpacing} |->
                    IF a = get_whirlpool_address(ConfigKey1, MintX, MintY, 1) THEN p1
                    ELSE IF p2 THEN WhirlpoolOk(MintX, MintY, a[5]) ELSE NoWhirlpool]] :
        x \in {Absent, MintOk(TOKEN_PROGRAM_ID), MintBad(TOKEN_PROGRAM_ID)},
        c \in {NoConfig, ConfigBad, ConfigOk(MaxFeeRate)},
        t \in {NoFeeTier, FeeTierBad, TierOf(1)},
        l \in ProgramAccountLists,
        p1 \in {NoWhirlpool, WhirlpoolBad, WhirlpoolOk(MintX, MintY, 1)},
        p2 \in BOOLEAN}

FetchPoolCall ==
    /\ call = NoCall
    /\ \E token_1 \in LedgerMints, token_2 \in LedgerMints,
          tick_spacing \in 1..MaxTickSpacing, rpcUp \in BOOLEAN :
          call' = [op |-> "fetch_pool", token_1 |-> token_1, token_2 |-> token_2,
                   tick_spacing |-> tick_spacing, rpcUp |-> rpcUp,
                   out |-> fetch_concentrated_liquidity_pool(
                              token_1, token_2, tick_spacing, rpcUp)]
    /\ UNCHANGED <<ledger, defaults, held>>

\* fetch_splash_pool
FetchSplashPoolCall ==
    /\ call = NoCall
    /\ \E token_1 \in LedgerMints, token_2 \in LedgerMints, rpcUp \in BOOLEAN :
          call' = [op |-> "fetch_pool", token_1 |-> token_1, token_2 |-> token_2,
                   tick_spacing |-> SPLASH_POOL_TICK_SPACING, rpcUp |-> rpcUp,
                   out |-> fetch_concentrated_liquidity_pool(
                              token_1, token_2, SPLASH_POOL_TICK_SPACING, rpcUp)]
    /\ UNCHANGED <<ledger, defaults, held>>

FetchPoolsCall ==
    /\ call = NoCall
    /\ \E token_1 \in LedgerMints, token_2 \in LedgerMints, rpcUp \in BOOLEAN :
          call' = [op |-> "fetch_pools", token_1 |-> token_1, token_2 |-> token_2,
                   rpcUp |-> rpcUp,
                   out |-> fetch_whirlpools_by_token_pair(token_1, token_2, rpcUp)]
    /\ UNCHANGED <<ledger, defaults, held>>

InitFetch ==
    /\ ledger \in FetchLedgers
    /\ defaults = DefaultsInit
    /\ held = {}
    /\ call = NoCall

NextFetch ==
    \/ FetchPoolCall
    \/ FetchSplashPoolCall
    \/ FetchPoolsCall
    \/ TakeResult
    \/ SetWhirlpoolsConfigAddress
    \/ OtherThreadLocks("WHIRLPOOLS_CONFIG_ADDRESS")
    \/ LedgerChanges(FetchLedgers)

SpecFetch == InitFetch /\ [][NextFetch]_vars

(***************************************************************************)
(* Claims about create-pool (SpecPool).                                    *)
(***************************************************************************)
PoolReturned == call.op = "create_pool" /\ call.out.status = "ok"

\* the three start indices of a call: the arrays of the full-range lower
\* tick, of the full-range upper tick and of the initial-price tick
StartIndices ==
    {get_tick_array_start_tick_index(FullRangeLower(call.tick_spacing), call.tick_spacing),
     get_tick_array_start_tick_index(FullRangeUpper(call.tick_spacing), call.tick_spacing),
     get_tick_array_start_tick_index(InitialTickIndex(call.initial_price),
                                     call.tick_spacing)}

\* C3: a returned create-pool batch is one pool-initialization instruction
\* followed by tick-array initializations only, one per distinct value among
\* the three start indices: no start index twice, between 1 and 3 of them, and
\* exactly 1 when the three start indices coincide.
C3_OneTickArrayPerStartIndex ==
    PoolReturned =>
        LET ixs == call.out.instructions
            arrays == Positions(ixs, "InitializeTickArray")
        IN /\ Len(ixs) >= 1
           /\ Positions(ixs, "InitializePoolV2") = {1}
           /\ arrays = 2..Len(ixs)
           /\ {ixs[k].start_tick_index : k \in arrays} = StartIndices
           /\ \A j \in arrays, k \in arrays :
                 ixs[j].start_tick_index = ixs[k].start_tick_index => j = k
           /\ Cardinality(arrays) \in 1..3
           /\ Cardinality(StartIndices) = 1 => Cardinality(arrays) = 1

\* a returned batch whose initial-price tick array is one of the full-range
\* arrays: two tick-array instructions for three start indices
C3_Witness ==
    /\ PoolReturned
    /\ Cardinality(StartIndices) = 2
    /\ Len(call.out.instructions) = 3

\* C7: a create-pool call whose token_a is not byte-wise strictly smaller
\* than token_b fails with no ledger read and no batch; every returned batch
\* names the mints as they were given, token_mint_a byte-wise strictly smaller
\* than token_mint_b, in its pool-initialization instruction and in the
\* address of its pool.
C7_NonCanonicalOrderRejected ==
    call.op = "create_pool" =>
        LET a == call.token_a
            b == call.token_b
            smaller == a[1] < b[1] \/ (a[1] = b[1] /\ a[2] < b[2])
        IN /\ ~smaller =>
                /\ call.out.status # "ok"
                /\ call.out.reads = 0
                /\ call.out.instructions = <<>>
           /\ call.out.status = "ok" =>
                /\ smaller
                /\ call.out.instructions[1].token_mint_a = a
                /\ call.out.instructions[1].token_mint_b = b
                /\ call.out.pool_address =
                      get_whirlpool_address(call.out.instructions[1].whirlpools_config,
                                            a, b, call.tick_spacing)

\* a call with the two mints in the wrong order, both on the ledger, a funder
\* given and the rpc up, that fails before its first read
C7_Witness ==
    /\ call.op = "create_pool"
    /\ call.token_a = MintY
    /\ call.token_b = MintX
    /\ call.funder = Some(Wallet)
    /\ call.rpcUp
    /\ IsSome(GetMint(MintX))
    /\ IsSome(GetMint(MintY))
    /\ call.out.status = "panic"
    /\ call.out.reads = 0

\* C9: no call of an entry point panics: every failure is an error result,
\* and a failed call returns no instruction.
C9_FailuresAreErrorResults ==
    call.op \in {"create_pool", "prepare", "decrease_liquidity", "fetch_pool",
                 "fetch_pools"} =>
        /\ call.out.status \in {"ok", "err"}
        /\ call.out.status = "err" => call.out.instructions = <<>>

(***************************************************************************)
(* Claims about decrease-liquidity (SpecDecrease).                         *)
(***************************************************************************)
DecreaseReturned == call.op = "decrease_liquidity" /\ call.out.status = "ok"

CreateKinds == {"CreateAssociatedTokenAccount", "CreateAccount", "CreateAccountWithSeed",
                "InitializeAccount3", "Transfer", "SyncNative"}

\* what the provisioner returns for the two mints of the position's pool
PoolTokenAccounts(now) ==
    LET pool == GetPool(GetPosition(get_position_address(call.position_mint)).whirlpool)
    IN prepare_token_accounts_instructions(
           UnwrapOr(call.authority, defaults.FUNDER),
           <<WithoutBalance(pool.token_mint_a), WithoutBalance(pool.token_mint_b)>>,
           TRUE, now)

\* C2: a returned decrease-liquidity batch is the provisioner's create
\* instructions in their order, then exactly one DecreaseLiquidityV2
\* instruction, then the provisioner's cleanup instructions in their order: no
\* create instruction after the protocol instruction, no cleanup before it.
C2_CreateProtocolCleanupOrder ==
    DecreaseReturned =>
        LET ixs == call.out.instructions
            at == Positions(ixs, "DecreaseLiquidityV2")
        IN /\ Cardinality(at) = 1
           /\ \A p \in at :
                 /\ \A k \in 1..(p - 1) : ixs[k].kind \in CreateKinds
                 /\ \A k \in (p + 1)..Len(ixs) : ixs[k].kind = "CloseAccount"
                 /\ \E now \in 1..MaxTime :
                       /\ SubSeq(ixs, 1, p - 1) = PoolTokenAccounts(now).create
                       /\ SubSeq(ixs, p + 1, Len(ixs)) = PoolTokenAccounts(now).cleanup

\* a returned batch with instructions on both sides of the protocol
\* instruction: an associated account to create and a wrapped native account
\* to close
C2_Witness ==
    /\ DecreaseReturned
    /\ Len(call.out.instructions) = 5
    /\ call.out.instructions[1].kind = "CreateAssociatedTokenAccount"
    /\ call.out.instructions[4].kind = "DecreaseLiquidityV2"
    /\ call.out.instructions[5].kind = "CloseAccount"

\* C8: with the locks free, decrease_liquidity_instructions and
\* close_position_instructions return the error 'Authority must be provided',
\* with no ledger read, exactly when the resolved authority is the all-zero
\* address; a decrease-liquidity call with another authority goes on to read
\* the position.
C8_ZeroAuthorityRejected ==
    (call.op \in {"decrease_liquidity", "close_position"} /\ held = {}) =>
        LET authority == UnwrapOr(call.authority, defaults.FUNDER)
            rejected == /\ call.out.status = "err"
                        /\ call.out.error = "Authority must be provided"
        IN /\ rejected <=> authority = PubkeyDefault
           /\ rejected => call.out.reads = 0
           /\ (call.op = "decrease_liquidity" /\ authority # PubkeyDefault)
                => call.out.reads >= 1

(***************************************************************************)
(* Claims about pool discovery (SpecFetch).                                *)
(***************************************************************************)
\* the two mints of a call in byte-wise order
CanonicalPair ==
    LET a == call.token_1
        b == call.token_2
    IN IF a[1] < b[1] \/ (a[1] = b[1] /\ a[2] <= b[2]) THEN <<a, b>> ELSE <<b, a>>

\* the fee tiers a call asks about: the tier of the one tick spacing, or the
\* fetched tiers in their order
AskedFeeTiers ==
    IF call.op = "fetch_pool"
    THEN <<GetFeeTier(get_fee_tier_address(defaults.WHIRLPOOLS_CONFIG_ADDRESS,
                                           call.tick_spacing))>>
    ELSE ledger.program_accounts

AskedTickSpacing(i) ==
    IF call.op = "fetch_pool" THEN call.tick_spacing ELSE AskedFeeTiers[i].tick_spacing

AskedPool(i) ==
    GetPool(get_whirlpool_address(defaults.WHIRLPOOLS_CONFIG_ADDRESS,
                                  CanonicalPair[1], CanonicalPair[2], AskedTickSpacing(i)))

\* everything a call needs apart from the pool accounts is there and decodes
FetchInputsFine ==
    /\ held = {}
    /\ call.rpcUp
    /\ GetConfig(defaults.WHIRLPOOLS_CONFIG_ADDRESS).st = "ok"
    /\ GetMint(call.token_1).st = "ok"
    /\ GetMint(call.token_2).st = "ok"
    /\ \A i \in 1..Len(AskedFeeTiers) :
          AskedFeeTiers[i].st = "ok" /\ AskedPool(i).st # "bad"

\* C10: a returned pool discovery has one result per asked tick spacing, in
\* order: Initialized with the decoded account if and only if the account at
\* the pool address of the byte-wise ordered pair and that tick spacing
\* exists, otherwise Uninitialized with that tick spacing, the default fee
\* rate of its fee tier, the config's default protocol fee rate and the
\* ordered mints; and a call that lacks nothing but pool accounts returns.
C10_InitializedIffPoolExists ==
    call.op \in {"fetch_pool", "fetch_pools"} =>
        /\ FetchInputsFine => call.out.status = "ok"
        /\ call.out.status = "ok" =>
              /\ Len(call.out.pools) = Len(AskedFeeTiers)
              /\ \A i \in 1..Len(call.out.pools) :
                    LET info == call.out.pools[i]
                    IN /\ info.tag = "Initialized" <=> IsSome(AskedPool(i))
                       /\ info.tag = "Initialized" => info.state = AskedPool(i)
                       /\ info.tag # "Initialized" =>
                             /\ info.tag = "Uninitialized"
                             /\ info.state.whirlpools_config =
                                    defaults.WHIRLPOOLS_CONFIG_ADDRESS
                             /\ info.state.tick_spacing = AskedTickSpacing(i)
                             /\ info.state.fee_rate = AskedFeeTiers[i].default_fee_rate
                             /\ info.state.protocol_fee_rate =
                                    GetConfig(defaults.WHIRLPOOLS_CONFIG_ADDRESS)
                                        .default_protocol_fee_rate
                             /\ info.state.token_mint_a = CanonicalPair[1]
                             /\ info.state.token_mint_b = CanonicalPair[2]

\* a discovery over two fee tiers, the mints given larger first, that finds
\* the pool of one tier and none for the other
C10_Witness ==
    /\ call.op = "fetch_pools"
    /\ call.out.status = "ok"
    /\ call.token_1 = MintY
    /\ call.token_2 = MintX
    /\ Len(call.out.pools) = 2
    /\ call.out.pools[1].tag = "Initialized"
    /\ call.out.pools[2].tag = "Uninitialized"
    /\ call.out.pools[2].state.token_mint_a = MintX

(***************************************************************************)
(* Claims about close-position (SpecDecrease).                             *)
(***************************************************************************)
\* the position of a call and its pool are on the ledger and decode
PositionValid ==
    LET position == GetPosition(get_position_address(call.position_mint))
    IN position.st = "ok" /\ GetPool(position.whirlpool).st = "ok"

\* C11: a close_position_instructions call for a valid position that is not
\* rejected returns one batch that holds, in this order, a decrease-liquidity
\* instruction, a fee-collection instruction, a rewards-collection instruction
\* and, as its last instruction, the closure of the position account; no
\* closure instruction stands without the three stages before it.
C11_ClosePositionFourStages ==
    (call.op = "close_position" /\ PositionValid /\ call.out.status # "err") =>
        LET ixs == call.out.instructions
            closes == Positions(ixs, "ClosePosition")
        IN /\ call.out.status = "ok"
           /\ closes = {Len(ixs)}
           /\ \A c \in closes :
                 \E d \in Positions(ixs, "DecreaseLiquidityV2"),
                    f \in Positions(ixs, "CollectFeesV2"),
                    r \in Positions(ixs, "CollectRewardV2") :
                    d < f /\ f < r /\ r < c

(***************************************************************************)
(* The three batch builders side by side, on the ledgers of the            *)
(* decrease-liquidity specification, for the claims about signer lists.    *)
(***************************************************************************)
NextSigners ==
    \/ PrepareCall
    \/ DecreaseLiquidityCall
    \/ CreatePoolCall
    \/ TakeResult
    \/ SetFunder
    \/ SetNativeMintWrappingStrategy
    \/ LedgerChanges(DecreaseLedgers)

SpecSigners == InitDecrease /\ [][NextSigners]_vars

\* the accounts a batch creates for a fresh keypair, in the order of creation
CreatedKeypairs(instructions) ==
    LET made == SelectSeq(instructions, LAMBDA ix : ix.kind = "CreateAccount")
    IN [k \in 1..Len(made) |-> made[k].account]

\* C12: the signers of a returned batch are the fresh keypairs whose accounts
\* the batch creates.  The provisioner returns the ephemeral keypair as its one
\* signer when the native mint is requested under the Keypair strategy, which
\* is when it emits a create-account instruction, and no signer otherwise;
\* decrease-liquidity returns the signers of the provisioner; create-pool
\* returns two distinct keypairs, the token_vault_a and token_vault_b of its
\* pool-initialization instruction.
C12_SignersMatchCreatedKeypairs ==
    /\ PrepareReturned =>
          /\ call.out.signers = CreatedKeypairs(call.out.create)
          /\ call.out.signers # <<>> <=>
                (NativeRequested /\ defaults.NATIVE_MINT_WRAPPING_STRATEGY = "Keypair")
          /\ Len(call.out.signers) <= 1
    /\ DecreaseReturned =>
          /\ call.out.signers = CreatedKeypairs(call.out.instructions)
          /\ \E now \in 1..MaxTime : call.out.signers = PoolTokenAccounts(now).signers
    /\ PoolReturned =>
          /\ Len(call.out.signers) = 2
          /\ call.out.signers[1] = call.out.instructions[1].token_vault_a
          /\ call.out.signers[2] = call.out.instructions[1].token_vault_b
          /\ call.out.signers[1] # call.out.signers[2]

\* a returned decrease-liquidity batch for a pool of the native mint under
\* the Keypair strategy: the batch creates the ephemeral account and names its
\* keypair as the one signer
C12_Witness ==
    /\ DecreaseReturned
    /\ defaults.NATIVE_MINT_WRAPPING_STRATEGY = "Keypair"
    /\ call.out.signers = <<NewKeypair>>
    /\ Positions(call.out.instructions, "CreateAccount") # {}

(***************************************************************************)
(* create_concentrated_liquidity_pool_instructions statement by statement, *)
(* with the other threads of the process running between its statements.   *)
(* The call variable is the frame of the call in flight: pc is the         *)
(* statement it stands before, holding the mutexes it holds there.         *)
(***************************************************************************)
Running == [status |-> "running", error |-> "", reads |-> 0, instructions |-> <<>>]

\* the call returns: Ok(..), the Err of a `?`, or the panic of an assert!;
\* the guards it still holds are dropped
Return(out) == call' = [call EXCEPT !.pc = "done", !.holding = {}, !.out = out]

Goto(pc) == call' = [call EXCEPT !.pc = pc]

\* lines 60-63: the funder and the two assertions
PoolBegin ==
    /\ call = NoCall
    /\ \E token_a \in LedgerMints, token_b \in LedgerMints,
          tick_spacing \in 1..MaxTickSpacing, initial_price \in InitialPrices,
          funder \in FunderArgs, rpcUp \in BOOLEAN :
          \E order \in TickArrayOrders(tick_spacing, initial_price) :
            LET funder_value == UnwrapOr(funder, defaults.FUNDER)
                frame == [op |-> "create_pool", pc |-> "get_account_a", holding |-> {},
                          token_a |-> token_a, token_b |-> token_b,
                          tick_spacing |-> tick_spacing,
                          initial_price |-> initial_price,
                          funder |-> funder, rpcUp |-> rpcUp, order |-> order,
                          funder_value |-> funder_value,
                          config_pool |-> PubkeyDefault,
                          extension_fee |-> PubkeyDefault,
                          extension_a |-> PubkeyDefault,
                          extension_b |-> PubkeyDefault,
                          out |-> Running]
            IN call' =
                 IF Locked("FUNDER")
                 THEN [frame EXCEPT !.pc = "done", !.out = Err("try_lock", 0)]
                 ELSE IF funder_value = PubkeyDefault
                 THEN [frame EXCEPT !.pc = "done",
                                    !.out = Panic("Funder must be provided", 0)]
                 ELSE IF ~TokenOrderOk(token_a, token_b)
                 THEN [frame EXCEPT !.pc = "done",
                                    !.out = Panic("Token order needs to be flipped", 0)]
                 ELSE frame
    /\ UNCHANGED <<ledger, defaults, held>>

\* lines 65-69: rpc.get_account(&token_a) and Mint::unpack
PoolReadMintA ==
    /\ call # NoCall /\ call.op = "create_pool" /\ call.pc = "get_account_a"
    /\ IF ~call.rpcUp THEN Return(Err("rpc", 1))
       ELSE IF ~IsSome(GetMint(call.token_a)) THEN Return(Err("Mint not found", 1))
       ELSE IF GetMint(call.token_a).st = "bad" THEN Return(Err("Mint::unpack", 1))
       ELSE Goto("get_account_b")
    /\ UNCHANGED <<ledger, defaults, held>>

\* lines 70-74: rpc.get_account(&token_b) and Mint::unpack
PoolReadMintB ==
    /\ call # NoCall /\ call.op = "create_pool" /\ call.pc = "get_account_b"
    /\ IF ~IsSome(GetMint(call.token_b)) THEN Return(Err("Mint not found", 2))
       ELSE IF GetMint(call.token_b).st = "bad" THEN Return(Err("Mint::unpack", 2))
       ELSE Goto("pool_address")
    /\ UNCHANGED <<ledger, defaults, held>>

\* lines 78-83: the first read of WHIRLPOOLS_CONFIG_ADDRESS, for pool_address
PoolAddress ==
    /\ call # NoCall /\ call.op = "create_pool" /\ call.pc = "pool_address"
    /\ IF Locked("WHIRLPOOLS_CONFIG_ADDRESS") THEN Return(Err("try_lock", 2))
       ELSE call' = [call EXCEPT !.pc = "fee_tier",
                                 !.config_pool = defaults.WHIRLPOOLS_CONFIG_ADDRESS]
    /\ UNCHANGED <<ledger, defaults, held>>

\* lines 85-88, 90-93, 95-98: three reads of WHIRLPOOLS_CONFIG_EXTENSION_ADDRESS
PoolExtension(pc, field, next) ==
    /\ call # NoCall /\ call.op = "create_pool" /\ call.pc = pc
    /\ IF Locked("WHIRLPOOLS_CONFIG_EXTENSION_ADDRESS") THEN Return(Err("try_lock", 2))
       ELSE call' = [call EXCEPT !.pc = next,
                                 ![field] = defaults.WHIRLPOOLS_CONFIG_EXTENSION_ADDRESS]
    /\ UNCHANGED <<ledger, defaults, held>>

\* lines 100-151: the second read of WHIRLPOOLS_CONFIG_ADDRESS, inside the
\* pool-initialization instruction, and the tick arrays
PoolEmit ==
    /\ call # NoCall /\ call.op = "create_pool" /\ call.pc = "initialize_pool"
    /\ IF Locked("WHIRLPOOLS_CONFIG_ADDRESS") THEN Return(Err("try_lock", 2))
       ELSE call' = [call EXCEPT
                !.pc = "get_minimum_balance",
                !.out = [CreatePoolBatchOf(
                            call.token_a, call.token_b, call.tick_spacing,
                            call.initial_price, call.funder_value, call.order,
                            call.config_pool, call.extension_fee, call.extension_a,
                            call.extension_b, defaults.WHIRLPOOLS_CONFIG_ADDRESS)
                         EXCEPT !.status = "running"]]
    /\ UNCHANGED <<ledger, defaults, held>>

\* lines 153-160: the rent read and the return
PoolRent ==
    /\ call # NoCall /\ call.op = "create_pool" /\ call.pc = "get_minimum_balance"
    /\ Return([call.out EXCEPT !.status = "ok"])
    /\ UNCHANGED <<ledger, defaults, held>>

\* the caller takes the result of a call that returned
TakeReturned ==
    /\ call # NoCall /\ call.pc = "done"
    /\ call' = NoCall
    /\ UNCHANGED <<ledger, defaults, held>>

\* another thread calls set_whirlpools_config_address at any point
OtherThreadSetsConfig ==
    /\ ~Locked("WHIRLPOOLS_CONFIG_ADDRESS")
    /\ ~Locked("WHIRLPOOLS_CONFIG_EXTENSION_ADDRESS")
    /\ call # NoCall => "WHIRLPOOLS_CONFIG_ADDRESS" \notin call.holding
    /\ \E c \in {<<ConfigKey1, ExtensionKey1>>, <<ConfigKey2, ExtensionKey2>>} :
          defaults' = [defaults EXCEPT !.WHIRLPOOLS_CONFIG_ADDRESS = c[1],
                                       !.WHIRLPOOLS_CONFIG_EXTENSION_ADDRESS = c[2]]
    /\ UNCHANGED <<ledger, held, call>>

\* another thread takes or releases the mutex of a default at any point
OtherThreadHolds(name) ==
    /\ held = {} \/ held = {name}
    /\ call # NoCall => name \notin call.holding
    /\ held' = IF name \in held THEN {} ELSE {name}
    /\ UNCHANGED <<ledger, defaults, call>>

PoolStepLedgers ==
    {[NoAccounts EXCEPT !.mint = [m \in LedgerMints |-> IF m = MintX THEN x ELSE y]] :
        x \in {Absent, MintBad(TOKEN_PROGRAM_ID), MintOk(TOKEN_PROGRAM_ID)},
        y \in {Absent, MintOk(TOKEN_PROGRAM_ID)}}

InitPoolSteps ==
    /\ ledger \in PoolStepLedgers
    /\ defaults = [DefaultsInit EXCEPT !.FUNDER = Wallet]
    /\ held = {}
    /\ call = NoCall

NextPoolSteps ==
    \/ PoolBegin
    \/ PoolReadMintA
    \/ PoolReadMintB
    \/ PoolAddress
    \/ PoolExtension("fee_tier", "extension_fee", "token_badge_a")
    \/ PoolExtension("token_badge_a", "extension_a", "token_badge_b")
    \/ PoolExtension("token_badge_b", "extension_b", "initialize_pool")
    \/ PoolEmit
    \/ PoolRent
    \/ TakeReturned
    \/ OtherThreadSetsConfig
    \/ OtherThreadHolds("FUNDER")
    \/ OtherThreadHolds("WHIRLPOOLS_CONFIG_ADDRESS")
    \/ OtherThreadHolds("WHIRLPOOLS_CONFIG_EXTENSION_ADDRESS")

SpecPoolSteps == InitPoolSteps /\ [][NextPoolSteps]_vars

\* C13: whatever another thread does to the defaults during the call, a
\* returned create-pool batch is consistent: the whirlpools_config of its
\* pool-initialization instruction is the config its pool_address is derived
\* from, and its fee tier and its two token badges are derived from one
\* config-extension value.
C13_BatchFromOneReadOfEachDefault ==
    (call.op = "create_pool" /\ call.pc = "done" /\ call.out.status = "ok") =>
        LET ix == call.out.instructions[1]
        IN /\ call.out.pool_address =
                 get_whirlpool_address(ix.whirlpools_config, call.token_a,
                                       call.token_b, call.tick_spacing)
           /\ ix.whirlpool = call.out.pool_address
           /\ \E extension \in {ExtensionKey1, ExtensionKey2} :
                 /\ ix.fee_tier = get_fee_tier_address(extension, call.tick_spacing)
                 /\ ix.token_badge_a = get_token_badge_address(extension, call.token_a)
                 /\ ix.token_badge_b = get_token_badge_address(extension, call.token_b)

(***************************************************************************)
(* pool.rs statement by statement.  `let whirlpools_config_address =       *)
(* &*WHIRLPOOLS_CONFIG_ADDRESS.try_lock()?;` borrows from the guard, whose *)
(* temporary therefore lives to the end of the function body: the mutex is *)
(* released when the call returns.                                         *)
(***************************************************************************)
\* the statements before which a request to the rpc node is sent
NetworkReadPcs ==
    {"get_account_a", "get_account_b", "get_minimum_balance",
     "get_multiple_accounts", "get_program_accounts", "get_whirlpool_accounts"}

FetchFrame(op, first, token_1, token_2, tick_spacing, rpcUp) ==
    IF Locked("WHIRLPOOLS_CONFIG_ADDRESS")
    THEN [op |-> op, pc |-> "done", holding |-> {},
          token_1 |-> token_1, token_2 |-> token_2, tick_spacing |-> tick_spacing,
          rpcUp |-> rpcUp, out |-> Err("try_lock", 0)]
    ELSE [op |-> op, pc |-> first, holding |-> {"WHIRLPOOLS_CONFIG_ADDRESS"},
          token_1 |-> token_1, token_2 |-> token_2, tick_spacing |-> tick_spacing,
          rpcUp |-> rpcUp, out |-> Running]

\* fetch_concentrated_liquidity_pool, lines 118-127
FetchPoolBegin ==
    /\ call = NoCall
    /\ \E token_1 \in LedgerMints, token_2 \in LedgerMints,
          tick_spacing \in 1..MaxTickSpacing, rpcUp \in BOOLEAN :
          call' = FetchFrame("fetch_pool", "get_multiple_accounts",
                             token_1, token_2, tick_spacing, rpcUp)
    /\ UNCHANGED <<ledger, defaults, held>>

\* lines 129-164: the one read and the result
FetchPoolRead ==
    /\ call # NoCall /\ call.op = "fetch_pool" /\ call.pc = "get_multiple_accounts"
    /\ Return(fetch_concentrated_liquidity_pool(
                  call.token_1, call.token_2, call.tick_spacing, call.rpcUp))
    /\ UNCHANGED <<ledger, defaults, held>>

\* fetch_whirlpools_by_token_pair, lines 168-179
FetchPoolsBegin ==
    /\ call = NoCall
    /\ \E token_1 \in LedgerMints, token_2 \in LedgerMints, rpcUp \in BOOLEAN :
          call' = FetchFrame("fetch_pools", "get_program_accounts",
                             token_1, token_2, 0, rpcUp)
    /\ UNCHANGED <<ledger, defaults, held>>

\* its three reads (lines 181, 196 and 220): the call returns at the n-th read
\* when it fails there, and after the last one
FetchPoolsRead(pc, n, next) ==
    /\ call # NoCall /\ call.op = "fetch_pools" /\ call.pc = pc
    /\ LET out == fetch_whirlpools_by_token_pair(call.token_1, call.token_2, call.rpcUp)
       IN IF next = "done" \/ (out.status = "err" /\ out.reads = n)
          THEN Return(out)
          ELSE Goto(next)
    /\ UNCHANGED <<ledger, defaults, held>>

InitFetchSteps ==
    /\ ledger \in FetchLedgers
    /\ defaults = DefaultsInit
    /\ held = {}
    /\ call = NoCall

NextFetchSteps ==
    \/ FetchPoolBegin
    \/ FetchPoolRead
    \/ FetchPoolsBegin
    \/ FetchPoolsRead("get_program_accounts", 1, "get_multiple_accounts")
    \/ FetchPoolsRead("get_multiple_accounts", 2, "get_whirlpool_accounts")
    \/ FetchPoolsRead("get_whirlpool_accounts", 3, "done")
    \/ TakeReturned
    \/ OtherThreadSetsConfig
    \/ OtherThreadHolds("WHIRLPOOLS_CONFIG_ADDRESS")

SpecFetchSteps == InitFetchSteps /\ [][NextFetchSteps]_vars

\* C14: while a call waits for a read of the ledger it holds the mutex of no
\* default, so another thread's try_lock cannot fail for the length of a
\* network read.
C14_NoLockHeldAcrossRead ==
    (call # NoCall /\ call.pc \in NetworkReadPcs) => call.holding = {}

(***************************************************************************)
(* Claims about the wrapped native account and the address map (SpecToken). *)
(***************************************************************************)
\* the instructions of a result that create an account outside the
\* associated-token program
NewAccounts ==
    SelectSeq(call.out.create,
              LAMBDA ix : ix.kind \in {"CreateAccount", "CreateAccountWithSeed"})

\* what the Keypair strategy returns for the native mint, for the account at
\* `account`: one creation funded with the rent minimum plus the requested
\* balance and owned by the token program, its initialization for the native
\* mint and the owner, one cleanup close, and the native mint mapped to it
WrappedNativeAccount(account) ==
    /\ Len(NewAccounts) = 1
    /\ NewAccounts[1].account = account
    /\ NewAccounts[1].from = call.owner
    /\ NewAccounts[1].program = TOKEN_PROGRAM_ID
    /\ "lamports" \in DOMAIN NewAccounts[1]
    /\ NewAccounts[1].lamports = RentExemptMinimum + NativeStrategy.balance
    /\ \E k \in Positions(call.out.create, "InitializeAccount3") :
          call.out.create[k] =
              initialize_account3(TOKEN_PROGRAM_ID, account, NATIVE_MINT, call.owner)
    /\ call.out.cleanup = <<close_account(account, call.owner)>>
    /\ NATIVE_MINT \in DOMAIN call.out.addresses
    /\ call.out.addresses[NATIVE_MINT] = account

\* the Keypair strategy does return this, with the keypair as signer
KeypairWrapsNative ==
    (PrepareReturned /\ NativeRequested
        /\ defaults.NATIVE_MINT_WRAPPING_STRATEGY = "Keypair") =>
        WrappedNativeAccount(NewKeypair) /\ call.out.signers = <<NewKeypair>>

\* C15: under the Seed strategy a returned result for a request with the
\* native mint is what the Keypair strategy returns for it, at the address
\* derived from the owner, the timestamp and the token program, and with no
\* additional signer.
C15_SeedSameAsKeypair ==
    (PrepareReturned /\ NativeRequested
        /\ defaults.NATIVE_MINT_WRAPPING_STRATEGY = "Seed") =>
        /\ \E now \in 1..MaxTime : WrappedNativeAccount(SeedPubkey(call.owner, now))
        /\ call.out.signers = <<>>

\* C16: the address map of a returned provisioner result has an entry for
\* every requested mint: for an ordinary mint the owner's associated address
\* for that mint and its token program; for the native mint the owner's
\* associated address under the None and Ata strategies and the new account
\* under Keypair and Seed; and decrease-liquidity never fails to find the owner
\* account of a pool mint in that map.
C16_AddressForEveryMint ==
    /\ PrepareReturned =>
          \A m \in RequestedMints :
             /\ m \in DOMAIN call.out.addresses
             /\ m # NATIVE_MINT =>
                   call.out.addresses[m] =
                      get_associated_token_address_with_program_id(
                          call.owner, m, GetMint(m).owner)
             /\ m = NATIVE_MINT =>
                   CASE defaults.NATIVE_MINT_WRAPPING_STRATEGY \in {"None", "Ata"} ->
                            call.out.addresses[m] = NativeAta(call.owner)
                     [] defaults.NATIVE_MINT_WRAPPING_STRATEGY = "Keypair" ->
                            call.out.addresses[m] = NewKeypair
                     [] OTHER ->
                            \E now \in 1..MaxTime :
                               call.out.addresses[m] = SeedPubkey(call.owner, now)
    /\ call.op = "decrease_liquidity" =>
          call.out.error # "token_account_addresses.get(..).unwrap()"

====
